---- MODULE Spec2Model ----
(***************************************************************************)
(* Alert ingestion, zone policy and bounded retention of the SpotAlert     *)
(* backend (src/server.js).  The ledger is the SQLite table `alerts`, the  *)
(* object store is the S3 bucket, the matcher is Rekognition and the       *)
(* notifier is SES.  Every `await` of processAlertPipeline and of          *)
(* enforceAlertRetention is one step of a request, so that requests        *)
(* interleave exactly where the Node event loop lets them.                 *)
(*                                                                         *)
(* Time is counted in minutes.  Timestamps are ISO-8601 strings of fixed   *)
(* width in the code, whose lexicographic order is the order of the        *)
(* instants, so they are modelled by the minute they denote.  Costs are    *)
(* counted in thousandths (0.001 is 1).                                    *)
(***************************************************************************)
EXTENDS Integers, Sequences, FiniteSets, TLC

\* ---------------------------------------------------------------- bounds
MaxAlerts == 2          \* largest MAX_ALERTS_PER_USER a deployment is given
MaxId == 3              \* ledger rows ever inserted
MaxTime == 6            \* last minute of the clock

\* ------------------------------------------------------ program constants
DefaultCooldown == 5    \* minutes, when the zone has no rule
DefaultInterval == 10   \* alert_interval of an upsert that gives none
DefaultCost == 1        \* 0.001
ListLimit == 200        \* page size of the listing

MaxJobs == 2             \* rule upserts in flight at a time

Procs == {"p1", "p2"}
OneProc == {"p1"}
Users == {"a", "b"}
NoUser == ""
ZoneIds == {1}                   \* a zone id has neither zone nor rule until the zone is created
NoZone == 0
RuleTypes == {"known_only", "unknown_only", "mixed"}
NoRule == [rule_type |-> "none", alert_interval |-> 0]
NoZoneRow == [exists |-> FALSE, cost_per_scan |-> 0]
CamIds == {1}
NoCamRow == [exists |-> FALSE, user_email |-> NoUser, zone_id |-> NoZone]
\* every location of the runs belongs to account a
ZoneOwner == "a"

VARIABLES
  now,          \* Date.now(), in minutes
  maxAlerts,    \* process.env.MAX_ALERTS_PER_USER of the running server
  alerts,       \* table alerts: a set of rows
  nextId,       \* AUTOINCREMENT of alerts.id
  keyCtr,       \* fresh-key supply (Date.now() + random suffix): the next key that gets stored
  s3,           \* keys present in the bucket
  zones,        \* table zones: zone id -> the zone's row, or NoZoneRow
  zone_rules,   \* table zone_rules: zone id -> rule or NoRule
  pc,           \* position of each request in processAlertPipeline
  lv,           \* locals of each request
  result,       \* what the request returns
  trace,        \* calls on matcher, object store, ledger, retention and notifier the request has made, in order
  delJob,       \* the manual delete in flight: NoJob or the row it read
  pre,          \* history: ledger and bucket when the request started
  retPre,       \* history: ledger when the request's retention counted
  lastAcc,      \* history: per zone, when the last returned request was accepted as unknown
  delLog,       \* history: keys whose blob delete was attempted, keys whose blob delete failed,
                \* rows whose deletion stopped before the row delete
  ruleRows,     \* table zone_rules, row by row; zone_rules is what SELECT ... WHERE zone_id=? gives
  ruleJobs,     \* rule upserts that have passed the ownership check: the rows they are about to write
  cameras       \* table cameras: per camera id its account and its zone reference

vars == <<now, maxAlerts, alerts, nextId, keyCtr, s3, zones, zone_rules,
          pc, lv, result, trace, delJob, pre, retPre, lastAcc, delLog, ruleRows, ruleJobs,
          cameras>>

NoJob == [id |-> 0, image_key |-> 0]
NoSnap == [alerts |-> {}, s3 |-> {}]
NoLog == [tried |-> {}, failed |-> {}, stopped |-> {}]
InitLv == [user |-> NoUser, zone |-> NoZone, face |-> "unknown", isKnown |-> FALSE,
           matchErr |-> FALSE, cost |-> 0, key |-> 0, alertId |-> 0, toDelete |-> 0,
           victims |-> <<>>, chkAt |-> 0, insAt |-> 0, mailed |-> FALSE, stored |-> FALSE, snap |-> FALSE]

\* ------------------------------------------------------------- helpers
Min(a, b) == IF a < b THEN a ELSE b
Max(a, b) == IF a > b THEN a ELSE b

RowsOf(tbl, u) == {r \in tbl : r.user_email = u}
Unpinned(tbl, u) == {r \in tbl : r.user_email = u /\ r.pinned = 0}

\* the rows of table zone_rules for zone z
RulesOfZone(rows, z) == {r \in rows : r.zone_id = z}

\* db.get(`SELECT rule_type, alert_interval FROM zone_rules WHERE zone_id=?`), for every zone
RuleView(rows) ==
  [z \in ZoneIds |->
     IF RulesOfZone(rows, z) = {} THEN NoRule
     ELSE LET r == CHOOSE r \in RulesOfZone(rows, z) : TRUE
          IN [rule_type |-> r.rule_type, alert_interval |-> r.alert_interval]]

\* INSERT OR IGNORE INTO zone_rules ...: zone_id is UNIQUE
InsertOrIgnore(rows, row) ==
  IF RulesOfZone(rows, row.zone_id) # {} THEN rows ELSE rows \cup {row}

\* faulty variant: a plain INSERT into a table whose zone_id is not unique
UpsertPlainInsert(rows, row) == rows \cup {row}

\* INSERT INTO zone_rules ... ON CONFLICT(zone_id) DO UPDATE SET rule_type, alert_interval
Upsert(rows, row) == {r \in rows : r.zone_id # row.zone_id} \cup {row}

\* faulty variant: the zone's own interval is ignored
CooldownMinutesDefaultOnly(rules, z) == DefaultCooldown

\* rule?.alert_interval || process.env.UNKNOWN_ALERT_COOLDOWN_MINUTES || 5
CooldownMinutes(rules, z) ==
  IF rules[z].rule_type # "none" /\ rules[z].alert_interval # 0
    THEN rules[z].alert_interval
    ELSE DefaultCooldown

\* faulty variant: the query forgets type='unknown'
shouldCooldownAnyType(tbl, rules, t, z) ==
  IF z = NoZone THEN FALSE
  ELSE LET minutes == CooldownMinutes(rules, z) IN
       IF minutes <= 0 THEN FALSE
       ELSE \E r \in tbl : r.zone_id = z /\ r.timestamp >= t - minutes

\* faulty variant: the query compares with > instead of >=
shouldCooldownStrictlyAfter(tbl, rules, t, z) ==
  IF z = NoZone THEN FALSE
  ELSE LET minutes == CooldownMinutes(rules, z) IN
       IF minutes <= 0 THEN FALSE
       ELSE \E r \in tbl : r.zone_id = z /\ r.type = "unknown" /\ r.timestamp > t - minutes

\* shouldCooldownUnknown(zoneId)
shouldCooldownUnknown(tbl, rules, t, z) ==
  IF z = NoZone THEN FALSE
  ELSE LET minutes == CooldownMinutes(rules, z) IN
       IF minutes <= 0 THEN FALSE
       ELSE \E r \in tbl : r.zone_id = z /\ r.type = "unknown" /\ r.timestamp >= t - minutes

\* faulty variant: a missing rule counts as the schema default unknown_only
ruleAllowsAlertSchemaDefault(rules, z, isKnown) ==
  IF z = NoZone THEN TRUE
  ELSE LET rt == IF rules[z].rule_type = "none" THEN "unknown_only" ELSE rules[z].rule_type IN
       CASE rt = "mixed" -> TRUE
         [] rt = "known_only" -> isKnown = TRUE
         [] rt = "unknown_only" -> isKnown = FALSE
         [] OTHER -> TRUE

\* faulty variant: known_only and unknown_only are taken for each other
ruleAllowsAlertSwapped(rules, z, isKnown) ==
  IF z = NoZone THEN TRUE
  ELSE LET rt == IF rules[z].rule_type = "none" THEN "mixed" ELSE rules[z].rule_type IN
       CASE rt = "mixed" -> TRUE
         [] rt = "known_only" -> isKnown = FALSE
         [] rt = "unknown_only" -> isKnown = TRUE
         [] OTHER -> TRUE

\* ruleAllowsAlert(zoneId, isKnown)
ruleAllowsAlert(rules, z, isKnown) ==
  IF z = NoZone THEN TRUE
  ELSE LET rt == IF rules[z].rule_type = "none" THEN "mixed" ELSE rules[z].rule_type IN
       CASE rt = "mixed" -> TRUE
         [] rt = "known_only" -> isKnown = TRUE
         [] rt = "unknown_only" -> isKnown = FALSE
         [] OTHER -> TRUE

\* cost (zone aware)
ResolveCost(zs, z) ==
  IF z # NoZone /\ zs[z].exists THEN zs[z].cost_per_scan ELSE DefaultCost

\* GET /api/alerts/list?type=...: the rows a page of ListLimit rows, newest first, is sure to hold
ListAlerts(tbl, u, type) ==
  LET match == {r \in tbl : r.user_email = u /\ (type = "all" \/ r.type = type)}
  IN {r \in match : Cardinality({q \in match : q # r /\ q.timestamp >= r.timestamp}) < ListLimit}

InitWith(m) ==
  /\ now = 0
  /\ maxAlerts = m
  /\ alerts = {}
  /\ nextId = 1
  /\ keyCtr = 1
  /\ s3 = {}
  /\ zones = [z \in ZoneIds |-> NoZoneRow]
  /\ zone_rules = [z \in ZoneIds |-> NoRule]
  /\ pc = [p \in Procs |-> "idle"]
  /\ lv = [p \in Procs |-> InitLv]
  /\ result = [p \in Procs |-> "none"]
  /\ trace = [p \in Procs |-> <<>>]
  /\ delJob = NoJob
  /\ pre = [p \in Procs |-> NoSnap]
  /\ retPre = [p \in Procs |-> {}]
  /\ lastAcc = [z \in ZoneIds |-> -1]
  /\ delLog = NoLog
  /\ ruleRows = {}
  /\ ruleJobs = {}
  /\ cameras = [c \in CamIds |-> NoCamRow]

\* a server started with the smallest cap
Init == InitWith(1)

\* a server started with any cap
InitAnyCap == \E m \in 1 .. MaxAlerts : InitWith(m)

AllIdle == (\A q \in Procs : pc[q] = "idle") /\ delJob = NoJob

\* no request is between two of its awaits: each is over or has its result and is about to answer
Settled == (\A q \in Procs : pc[q] \in {"idle", "done"}) /\ delJob = NoJob

\* time passes between requests: one minute, then five minutes at once, so that the instants
\* 0, 1, 6 lie at the end of and beyond both a one-minute and the default five-minute cooldown
TickSize(t) == IF t < 1 THEN 1 ELSE 5

Tick ==
  /\ AllIdle
  /\ now + TickSize(now) <= MaxTime
  /\ now' = now + TickSize(now)
  /\ UNCHANGED <<cameras, maxAlerts, alerts, nextId, keyCtr, s3, zones, zone_rules,
                 pc, lv, result, trace, delJob, pre, retPre, lastAcc, delLog, ruleRows, ruleJobs>>

\* the server is restarted with another MAX_ALERTS_PER_USER
Restart(m) ==
  /\ AllIdle
  /\ m # maxAlerts
  /\ maxAlerts' = m
  /\ UNCHANGED <<cameras, now, alerts, nextId, keyCtr, s3, zones, zone_rules,
                 pc, lv, result, trace, delJob, pre, retPre, lastAcc, delLog, ruleRows, ruleJobs>>

\* ------------------------------------------------ processAlertPipeline
PreInsertPcs == {"cooldown", "match", "rule", "cost", "put", "insert"}

Finish(p, res) ==
  /\ pc' = [pc EXCEPT ![p] = "done"]
  /\ result' = [result EXCEPT ![p] = res]

\* entry: email = safeLower(userEmail); if (!email) return { ok: false }
StartIngest(p, u, z, f, snap, lim) ==
  /\ pc[p] = "idle"
  /\ nextId + Cardinality({q \in Procs : pc[q] \in PreInsertPcs}) <= lim
  /\ lv' = [lv EXCEPT ![p] = [InitLv EXCEPT !.user = u, !.zone = z, !.face = f, !.snap = snap]]
  /\ pre' = [pre EXCEPT ![p] = IF snap THEN [alerts |-> alerts, s3 |-> s3] ELSE NoSnap]
  /\ IF u = NoUser
       THEN Finish(p, "failed")
       ELSE pc' = [pc EXCEPT ![p] = "cooldown"] /\ UNCHANGED result
  /\ UNCHANGED <<cameras, now, maxAlerts, alerts, nextId, keyCtr, s3, zones, zone_rules,
                 trace, delJob, retPre, lastAcc, delLog, ruleRows, ruleJobs>>

\* faulty variant: the matcher is called before the cooldown is looked at
CooldownStepAfterMatch(p) ==
  /\ pc[p] = "cooldown"
  /\ lv' = [lv EXCEPT ![p].chkAt = now]
  /\ trace' = [trace EXCEPT ![p] = Append(@, "match")]
  /\ IF shouldCooldownUnknown(alerts, zone_rules, now, lv[p].zone)
       THEN Finish(p, "cooldown")
       ELSE pc' = [pc EXCEPT ![p] = "match"] /\ UNCHANGED result
  /\ UNCHANGED <<cameras, now, maxAlerts, alerts, nextId, keyCtr, s3, zones, zone_rules,
                 delJob, pre, retPre, lastAcc, delLog, ruleRows, ruleJobs>>

\* const inCooldown = await shouldCooldownUnknown(zoneId)
CooldownStep(p) ==
  /\ pc[p] = "cooldown"
  /\ lv' = [lv EXCEPT ![p].chkAt = now]
  /\ IF shouldCooldownUnknown(alerts, zone_rules, now, lv[p].zone)
       THEN Finish(p, "cooldown")
       ELSE pc' = [pc EXCEPT ![p] = "match"] /\ UNCHANGED result
  /\ UNCHANGED <<cameras, now, maxAlerts, alerts, nextId, keyCtr, s3, zones, zone_rules,
                 trace, delJob, pre, retPre, lastAcc, delLog, ruleRows, ruleJobs>>

\* faulty variant: a matcher failure is not caught and fails the request
MatchStepThrows(p, ok) ==
  /\ pc[p] = "match"
  /\ lv' = [lv EXCEPT ![p].isKnown = (ok /\ lv[p].face = "known"), ![p].matchErr = ~ok]
  /\ trace' = [trace EXCEPT ![p] = Append(@, "match")]
  /\ IF ok THEN pc' = [pc EXCEPT ![p] = "rule"] /\ UNCHANGED result
           ELSE Finish(p, "failed")
  /\ UNCHANGED <<cameras, now, maxAlerts, alerts, nextId, keyCtr, s3, zones, zone_rules,
                 delJob, pre, retPre, lastAcc, delLog, ruleRows, ruleJobs>>

\* rekognition.send(SearchFacesByImage): a failure is caught and leaves matches = []
MatchStep(p, ok) ==
  /\ pc[p] = "match"
  /\ lv' = [lv EXCEPT ![p].isKnown = (ok /\ lv[p].face = "known"), ![p].matchErr = ~ok]
  /\ trace' = [trace EXCEPT ![p] = Append(@, "match")]
  /\ pc' = [pc EXCEPT ![p] = "rule"]
  /\ UNCHANGED <<cameras, now, maxAlerts, alerts, nextId, keyCtr, s3, zones, zone_rules,
                 result, delJob, pre, retPre, lastAcc, delLog, ruleRows, ruleJobs>>

\* faulty variant: the image is stored before the rule is looked at
RuleStepAfterStore(p) ==
  /\ pc[p] = "rule"
  /\ IF ruleAllowsAlert(zone_rules, lv[p].zone, lv[p].isKnown)
       THEN pc' = [pc EXCEPT ![p] = "cost"] /\ UNCHANGED <<result, s3, keyCtr>>
       ELSE /\ Finish(p, "policy")
            /\ s3' = s3 \cup {keyCtr}
            /\ keyCtr' = keyCtr + 1
  /\ UNCHANGED <<cameras, now, maxAlerts, alerts, nextId, zones, zone_rules,
                 lv, trace, delJob, pre, retPre, lastAcc, delLog, ruleRows, ruleJobs>>

\* const allowed = await ruleAllowsAlert(zoneId, isKnown)
RuleStep(p) ==
  /\ pc[p] = "rule"
  /\ IF ruleAllowsAlert(zone_rules, lv[p].zone, lv[p].isKnown)
       THEN pc' = [pc EXCEPT ![p] = "cost"] /\ UNCHANGED result
       ELSE Finish(p, "policy")
  /\ UNCHANGED <<cameras, now, maxAlerts, alerts, nextId, keyCtr, s3, zones, zone_rules,
                 lv, trace, delJob, pre, retPre, lastAcc, delLog, ruleRows, ruleJobs>>

\* faulty variant: the row is inserted before the image is stored
CostStepThenInsert(p) ==
  /\ pc[p] = "cost"
  /\ lv' = [lv EXCEPT ![p].cost = ResolveCost(zones, lv[p].zone)]
  /\ pc' = [pc EXCEPT ![p] = "insert"]
  /\ UNCHANGED <<cameras, now, maxAlerts, alerts, nextId, keyCtr, s3, zones, zone_rules,
                 result, trace, delJob, pre, retPre, lastAcc, delLog, ruleRows, ruleJobs>>

\* cost (zone aware)
CostStep(p) ==
  /\ pc[p] = "cost"
  /\ lv' = [lv EXCEPT ![p].cost = ResolveCost(zones, lv[p].zone)]
  /\ pc' = [pc EXCEPT ![p] = "put"]
  /\ UNCHANGED <<cameras, now, maxAlerts, alerts, nextId, keyCtr, s3, zones, zone_rules,
                 result, trace, delJob, pre, retPre, lastAcc, delLog, ruleRows, ruleJobs>>

\* the SELECT of the cost lookup rejects: nothing in processAlertPipeline catches it, the
\* handler's catch answers 500
CostFail(p) ==
  /\ pc[p] = "cost"
  /\ lv[p].zone # NoZone
  /\ Finish(p, "failed")
  /\ UNCHANGED <<cameras, now, maxAlerts, alerts, nextId, keyCtr, s3, zones, zone_rules,
                 lv, trace, delJob, pre, retPre, lastAcc, delLog, ruleRows, ruleJobs>>

\* faulty variant: a failed write is only logged and the row is inserted all the same
PutStepNoReturn(p, ok) ==
  /\ pc[p] = "put"
  /\ lv' = [lv EXCEPT ![p].key = keyCtr, ![p].stored = ok]
  /\ trace' = [trace EXCEPT ![p] = Append(@, "put")]
  /\ s3' = IF ok THEN s3 \cup {keyCtr} ELSE s3
  /\ keyCtr' = IF ok THEN keyCtr + 1 ELSE keyCtr
  /\ pc' = [pc EXCEPT ![p] = "insert"]
  /\ UNCHANGED <<cameras, now, maxAlerts, alerts, nextId, zones, zone_rules,
                 result, delJob, pre, retPre, lastAcc, delLog, ruleRows, ruleJobs>>

\* key generation and putImageToS3: a failure returns { ok: false }
PutStep(p, ok) ==
  /\ pc[p] = "put"
  /\ lv' = [lv EXCEPT ![p].key = keyCtr, ![p].stored = ok]
  /\ trace' = [trace EXCEPT ![p] = Append(@, "put")]
  /\ IF ok
       THEN /\ s3' = s3 \cup {keyCtr}
            /\ keyCtr' = keyCtr + 1
            /\ pc' = [pc EXCEPT ![p] = "insert"]
            /\ UNCHANGED result
       ELSE /\ Finish(p, "failed")
            /\ UNCHANGED <<s3, keyCtr>>
  /\ UNCHANGED <<cameras, now, maxAlerts, alerts, nextId, zones, zone_rules,
                 delJob, pre, retPre, lastAcc, delLog, ruleRows, ruleJobs>>

NewRow(p) ==
  [id |-> nextId, user_email |-> lv[p].user,
   type |-> IF lv[p].isKnown THEN "known" ELSE "unknown",
   image_key |-> lv[p].key, channel |-> "email", cost |-> lv[p].cost,
   zone_id |-> lv[p].zone, camera_id |-> 0, pinned |-> 0, timestamp |-> now]

\* faulty variant: the cooldown is looked at once more together with the insert
InsertStepRechecked(p) ==
  /\ pc[p] = "insert"
  /\ IF ~lv[p].isKnown /\ shouldCooldownUnknown(alerts, zone_rules, now, lv[p].zone)
       THEN /\ Finish(p, "cooldown")
            /\ UNCHANGED <<alerts, nextId, lv, trace>>
       ELSE /\ alerts' = alerts \cup {NewRow(p)}
            /\ nextId' = nextId + 1
            /\ lv' = [lv EXCEPT ![p].alertId = nextId, ![p].insAt = now]
            /\ trace' = [trace EXCEPT ![p] = Append(@, "insert")]
            /\ pc' = [pc EXCEPT ![p] = "ret_count"]
            /\ UNCHANGED result
  /\ UNCHANGED <<cameras, now, maxAlerts, keyCtr, s3, zones, zone_rules,
                 delJob, pre, retPre, lastAcc, delLog, ruleRows, ruleJobs>>

\* INSERT INTO alerts ...; alertId = insert.lastID
InsertStep(p) ==
  /\ pc[p] = "insert"
  /\ alerts' = alerts \cup {NewRow(p)}
  /\ nextId' = nextId + 1
  /\ lv' = [lv EXCEPT ![p].alertId = nextId, ![p].insAt = now]
  /\ trace' = [trace EXCEPT ![p] = Append(@, "insert")]
  /\ pc' = [pc EXCEPT ![p] = "ret_count"]
  /\ UNCHANGED <<cameras, now, maxAlerts, keyCtr, s3, zones, zone_rules,
                 result, delJob, pre, retPre, lastAcc, delLog, ruleRows, ruleJobs>>

\* ------------------------------------------------ enforceAlertRetention
\* faulty variant: the quota is one row short
RetCountOneShort(p) ==
  /\ pc[p] = "ret_count"
  /\ LET cnt == Cardinality(RowsOf(alerts, lv[p].user)) IN
       /\ lv' = [lv EXCEPT ![p].toDelete = IF cnt <= maxAlerts THEN 0 ELSE cnt - maxAlerts - 1]
       /\ pc' = [pc EXCEPT ![p] = IF cnt <= maxAlerts THEN "email" ELSE "ret_select"]
  /\ trace' = [trace EXCEPT ![p] = Append(@, "retention")]
  /\ retPre' = [retPre EXCEPT ![p] = IF lv[p].snap THEN alerts ELSE {}]
  /\ UNCHANGED <<cameras, now, maxAlerts, alerts, nextId, keyCtr, s3, zones, zone_rules,
                 result, delJob, pre, lastAcc, delLog, ruleRows, ruleJobs>>

\* SELECT COUNT(*) ...; if (cnt <= max) return; toDelete = cnt - max
RetCount(p) ==
  /\ pc[p] = "ret_count"
  /\ LET cnt == Cardinality(RowsOf(alerts, lv[p].user)) IN
       /\ lv' = [lv EXCEPT ![p].toDelete = IF cnt <= maxAlerts THEN 0 ELSE cnt - maxAlerts]
       /\ pc' = [pc EXCEPT ![p] = IF cnt <= maxAlerts THEN "email" ELSE "ret_select"]
  /\ trace' = [trace EXCEPT ![p] = Append(@, "retention")]
  /\ retPre' = [retPre EXCEPT ![p] = IF lv[p].snap THEN alerts ELSE {}]
  /\ UNCHANGED <<cameras, now, maxAlerts, alerts, nextId, keyCtr, s3, zones, zone_rules,
                 result, delJob, pre, lastAcc, delLog, ruleRows, ruleJobs>>

\* ORDER BY timestamp ASC: the clock is in minutes and two rows of one minute were written
\* at different milliseconds, the row of the smaller id first
Older(a, b) == a.timestamp < b.timestamp \/ (a.timestamp = b.timestamp /\ a.id < b.id)

\* faulty variant: the query forgets user_email=?
VictimListsAnyAccount(tbl, u, lim) ==
  LET U == {r \in tbl : r.pinned = 0}
      k == Min(lim, Cardinality(U))
  IN {vs \in [1 .. k -> U] :
        /\ \A i, j \in 1 .. k : i < j => Older(vs[i], vs[j])
        /\ \A i \in 1 .. k : \A r \in U : (\A j \in 1 .. k : vs[j] # r) => Older(vs[i], r)}

\* faulty variant: the query forgets pinned=0
VictimListsAnyPin(tbl, u, lim) ==
  LET U == RowsOf(tbl, u)
      k == Min(lim, Cardinality(U))
  IN {vs \in [1 .. k -> U] :
        /\ \A i, j \in 1 .. k : i < j => Older(vs[i], vs[j])
        /\ \A i \in 1 .. k : \A r \in U : (\A j \in 1 .. k : vs[j] # r) => Older(vs[i], r)}

\* SELECT id, image_key ... WHERE user_email=? AND pinned=0 ORDER BY timestamp ASC LIMIT ?
VictimLists(tbl, u, lim) ==
  LET U == Unpinned(tbl, u)
      k == Min(lim, Cardinality(U))
  IN {vs \in [1 .. k -> U] :
        /\ \A i, j \in 1 .. k : i < j => Older(vs[i], vs[j])
        /\ \A i \in 1 .. k : \A r \in U : (\A j \in 1 .. k : vs[j] # r) => Older(vs[i], r)}

RetSelect(p) ==
  /\ pc[p] = "ret_select"
  /\ \E vs \in VictimLists(alerts, lv[p].user, lv[p].toDelete) :
       /\ lv' = [lv EXCEPT ![p].victims = [i \in 1 .. Len(vs) |-> [id |-> vs[i].id, image_key |-> vs[i].image_key]]]
       /\ pc' = [pc EXCEPT ![p] = IF Len(vs) = 0 THEN "email" ELSE "ret_blob"]
  /\ UNCHANGED <<cameras, now, maxAlerts, alerts, nextId, keyCtr, s3, zones, zone_rules,
                 result, trace, delJob, pre, retPre, lastAcc, delLog, ruleRows, ruleJobs>>

\* faulty variant: the blob delete is left out
RetBlobSkipped(p, ok) ==
  /\ pc[p] = "ret_blob"
  /\ pc' = [pc EXCEPT ![p] = "ret_row"]
  /\ UNCHANGED <<cameras, now, maxAlerts, alerts, nextId, keyCtr, s3, zones, zone_rules,
                 lv, result, trace, delJob, pre, retPre, lastAcc, delLog, ruleRows, ruleJobs>>

\* try { await deleteImageFromS3({ key: v.image_key }) } catch { warn }
RetBlob(p, ok) ==
  /\ pc[p] = "ret_blob"
  /\ s3' = IF ok THEN s3 \ {Head(lv[p].victims).image_key} ELSE s3
  /\ delLog' = [delLog EXCEPT !.tried = @ \cup {Head(lv[p].victims).image_key},
                              !.failed = IF ok THEN @ ELSE @ \cup {Head(lv[p].victims).image_key}]
  /\ pc' = [pc EXCEPT ![p] = "ret_row"]
  /\ UNCHANGED <<cameras, now, maxAlerts, alerts, nextId, keyCtr, zones, zone_rules,
                 lv, result, trace, delJob, pre, retPre, lastAcc, ruleRows, ruleJobs>>

\* the ledger after DELETE FROM alerts WHERE id=?
DeleteById(tbl, id) == {r \in tbl : r.id # id}

\* faulty variant: a victim whose blob delete failed is kept
RetRowUnlessBlobLeft(p) ==
  /\ pc[p] = "ret_row"
  /\ alerts' = IF Head(lv[p].victims).image_key \in s3
                 THEN alerts
                 ELSE DeleteById(alerts, Head(lv[p].victims).id)
  /\ lv' = [lv EXCEPT ![p].victims = Tail(@)]
  /\ pc' = [pc EXCEPT ![p] = IF Len(lv[p].victims) > 1 THEN "ret_blob" ELSE "email"]
  /\ UNCHANGED <<cameras, now, maxAlerts, nextId, keyCtr, s3, zones, zone_rules,
                 result, trace, delJob, pre, retPre, lastAcc, delLog, ruleRows, ruleJobs>>

\* await db.run(`DELETE FROM alerts WHERE id=?`, v.id)
RetRow(p) ==
  /\ pc[p] = "ret_row"
  /\ alerts' = DeleteById(alerts, Head(lv[p].victims).id)
  /\ lv' = [lv EXCEPT ![p].victims = Tail(@)]
  /\ pc' = [pc EXCEPT ![p] = IF Len(lv[p].victims) > 1 THEN "ret_blob" ELSE "email"]
  /\ UNCHANGED <<cameras, now, maxAlerts, nextId, keyCtr, s3, zones, zone_rules,
                 result, trace, delJob, pre, retPre, lastAcc, delLog, ruleRows, ruleJobs>>

\* a db call of enforceAlertRetention rejects: nothing in enforceAlertRetention or in
\* processAlertPipeline catches it, the handler's catch answers 500
RetFail(p) ==
  /\ pc[p] \in {"ret_count", "ret_select", "ret_row"}
  /\ trace' = [trace EXCEPT ![p] = Append(@, "retention_failed")]
  /\ delLog' = IF pc[p] = "ret_row"
                 THEN [delLog EXCEPT !.stopped = @ \cup {Head(lv[p].victims).id}]
                 ELSE delLog
  /\ Finish(p, "failed")
  /\ UNCHANGED <<cameras, now, maxAlerts, alerts, nextId, keyCtr, s3, zones, zone_rules,
                 lv, delJob, pre, retPre, lastAcc, ruleRows, ruleJobs>>

\* faulty variant: a failed send is not swallowed and fails the request
EmailStepThrows(p, ok) ==
  /\ pc[p] = "email"
  /\ IF lv[p].isKnown
       THEN ok /\ UNCHANGED <<lv, trace>>
       ELSE /\ lv' = [lv EXCEPT ![p].mailed = ok]
            /\ trace' = [trace EXCEPT ![p] = Append(@, "notify")]
  /\ Finish(p, IF lv[p].isKnown \/ ok THEN "accepted" ELSE "failed")
  /\ UNCHANGED <<cameras, now, maxAlerts, alerts, nextId, keyCtr, s3, zones, zone_rules,
                 delJob, pre, retPre, lastAcc, delLog, ruleRows, ruleJobs>>

\* faulty variant: a failed send is tried a second time
EmailStepRetry(p, ok) ==
  /\ pc[p] = "email"
  /\ IF lv[p].isKnown
       THEN ok /\ UNCHANGED <<lv, trace>>
       ELSE /\ lv' = [lv EXCEPT ![p].mailed = ok]
            /\ trace' = [trace EXCEPT ![p] = IF ok THEN Append(@, "notify")
                                                   ELSE Append(Append(@, "notify"), "notify")]
  /\ Finish(p, "accepted")
  /\ UNCHANGED <<cameras, now, maxAlerts, alerts, nextId, keyCtr, s3, zones, zone_rules,
                 delJob, pre, retPre, lastAcc, delLog, ruleRows, ruleJobs>>

\* email for unknown: sendAlertEmail swallows a failed send; then return the accepted result
EmailStep(p, ok) ==
  /\ pc[p] = "email"
  /\ IF lv[p].isKnown
       THEN ok /\ UNCHANGED <<lv, trace>>
       ELSE /\ lv' = [lv EXCEPT ![p].mailed = ok]
            /\ trace' = [trace EXCEPT ![p] = Append(@, "notify")]
  /\ Finish(p, "accepted")
  /\ UNCHANGED <<cameras, now, maxAlerts, alerts, nextId, keyCtr, s3, zones, zone_rules,
                 delJob, pre, retPre, lastAcc, delLog, ruleRows, ruleJobs>>

\* rekognition.send, s3.send or ses.send never settles: the clients are built with a region
\* only and the calls are awaited without timeout, so the request stays at that await
ExternalPcs == {"match", "put", "ret_blob", "email"}

Hang(p) ==
  /\ pc[p] \in ExternalPcs
  /\ pc' = [pc EXCEPT ![p] = "hung"]
  /\ UNCHANGED <<cameras, now, maxAlerts, alerts, nextId, keyCtr, s3, zones, zone_rules,
                 lv, result, trace, delJob, pre, retPre, lastAcc, delLog, ruleRows, ruleJobs>>

\* the handler sends the response; the request is over
Return(p, hist) ==
  /\ pc[p] = "done"
  /\ lastAcc' = IF hist /\ result[p] = "accepted" /\ ~lv[p].isKnown /\ lv[p].zone # NoZone
                 THEN [lastAcc EXCEPT ![lv[p].zone] = lv[p].insAt]
                 ELSE lastAcc
  /\ pc' = [pc EXCEPT ![p] = "idle"]
  /\ lv' = [lv EXCEPT ![p] = InitLv]
  /\ result' = [result EXCEPT ![p] = "none"]
  /\ trace' = [trace EXCEPT ![p] = <<>>]
  /\ pre' = [pre EXCEPT ![p] = NoSnap]
  /\ retPre' = [retPre EXCEPT ![p] = {}]
  /\ UNCHANGED <<cameras, now, maxAlerts, alerts, nextId, keyCtr, s3, zones, zone_rules, delJob, delLog, ruleRows, ruleJobs>>

PipelineStep(p) ==
  \/ CooldownStep(p)
  \/ \E ok \in BOOLEAN : MatchStep(p, ok)
  \/ RuleStep(p)
  \/ CostStep(p)
  \/ \E ok \in BOOLEAN : PutStep(p, ok)
  \/ InsertStep(p)
  \/ RetCount(p)
  \/ RetSelect(p)
  \/ \E ok \in BOOLEAN : RetBlob(p, ok)
  \/ RetRow(p)
  \/ \E ok \in BOOLEAN : EmailStep(p, ok)

IngestInputs(p, snap, ins, lim) ==
  \E in \in ins : StartIngest(p, in[1], in[2], in[3], snap, lim)

Faces == {"known", "unknown"}

\* ------------------------------------------------ dashboard operations
\* POST /api/alerts/:id/pin
Pin(u, id, v) ==
  /\ \E r \in alerts : r.id = id /\ r.user_email = u
  /\ alerts' = {IF r.id = id THEN [r EXCEPT !.pinned = v] ELSE r : r \in alerts}
  /\ alerts' # alerts
  /\ UNCHANGED <<cameras, now, maxAlerts, nextId, keyCtr, s3, zones, zone_rules,
                 pc, lv, result, trace, delJob, pre, retPre, lastAcc, delLog, ruleRows, ruleJobs>>

\* DELETE /api/alerts/:id, up to the object-store delete (a failure is only warned about)
DelStart(u, id, ok) ==
  /\ delJob = NoJob
  /\ \E r \in alerts :
       /\ r.id = id /\ r.user_email = u
       /\ delJob' = [id |-> r.id, image_key |-> r.image_key]
       /\ s3' = IF ok THEN s3 \ {r.image_key} ELSE s3
       /\ delLog' = [delLog EXCEPT !.tried = @ \cup {r.image_key},
                                   !.failed = IF ok THEN @ ELSE @ \cup {r.image_key}]
  /\ UNCHANGED <<cameras, now, maxAlerts, alerts, nextId, keyCtr, zones, zone_rules,
                 pc, lv, result, trace, pre, retPre, lastAcc, ruleRows, ruleJobs>>

\* DELETE /api/alerts/:id, the row delete
DelRow ==
  /\ delJob # NoJob
  /\ alerts' = DeleteById(alerts, delJob.id)
  /\ delJob' = NoJob
  /\ UNCHANGED <<cameras, now, maxAlerts, nextId, keyCtr, s3, zones, zone_rules,
                 pc, lv, result, trace, pre, retPre, lastAcc, delLog, ruleRows, ruleJobs>>

\* DELETE /api/alerts/:id: the row delete rejects, the handler's catch answers 500
DelFail ==
  /\ delJob # NoJob
  /\ delLog' = [delLog EXCEPT !.stopped = @ \cup {delJob.id}]
  /\ delJob' = NoJob
  /\ UNCHANGED <<cameras, now, maxAlerts, alerts, nextId, keyCtr, s3, zones, zone_rules,
                 pc, lv, result, trace, pre, retPre, lastAcc, ruleRows, ruleJobs>>

\* POST /api/zones: the zone and its default rule
CreateZone(z, c) ==
  /\ zones[z] = NoZoneRow
  /\ \A y \in ZoneIds : y < z => zones[y] # NoZoneRow
  /\ zones' = [zones EXCEPT ![z] =
                 [exists |-> TRUE, cost_per_scan |-> IF c = 0 THEN DefaultCost ELSE c]]
  /\ ruleRows' = InsertOrIgnore(ruleRows,
                   [zone_id |-> z, rule_type |-> "unknown_only", alert_interval |-> DefaultCooldown])
  /\ zone_rules' = RuleView(ruleRows')
  /\ UNCHANGED <<cameras, now, maxAlerts, alerts, nextId, keyCtr, s3,
                 pc, lv, result, trace, delJob, pre, retPre, lastAcc, delLog, ruleJobs>>

\* POST /api/zone-rules
\* alert_interval = Number(req.body.alert_interval || 10)
RequestedInterval(iv) == IF iv = 0 THEN DefaultInterval ELSE iv

UpsertRule(z, rt, iv) ==
  /\ zones[z].exists
  /\ ruleRows' = Upsert(ruleRows,
                   [zone_id |-> z, rule_type |-> rt, alert_interval |-> RequestedInterval(iv)])
  /\ zone_rules' = RuleView(ruleRows')
  /\ zone_rules' # zone_rules
  /\ UNCHANGED <<cameras, now, maxAlerts, alerts, nextId, keyCtr, s3, zones,
                 pc, lv, result, trace, delJob, pre, retPre, lastAcc, delLog, ruleJobs>>

\* POST /api/zone-rules up to the ownership check: the handler now holds the row it will write
RuleCheck(z, rt, iv) ==
  /\ zones[z].exists
  /\ Cardinality(ruleJobs) < MaxJobs
  /\ ruleJobs' = ruleJobs \cup
       {[zone_id |-> z, rule_type |-> rt, alert_interval |-> RequestedInterval(iv)]}
  /\ ruleJobs' # ruleJobs
  /\ UNCHANGED <<cameras, now, maxAlerts, alerts, nextId, keyCtr, s3, zones, zone_rules,
                 pc, lv, result, trace, delJob, pre, retPre, lastAcc, delLog, ruleRows>>

\* POST /api/zone-rules, the upsert statement
RuleWrite(job) ==
  /\ job \in ruleJobs
  /\ ruleJobs' = ruleJobs \ {job}
  /\ ruleRows' = Upsert(ruleRows, job)
  /\ zone_rules' = RuleView(ruleRows')
  /\ UNCHANGED <<cameras, now, maxAlerts, alerts, nextId, keyCtr, s3, zones,
                 pc, lv, result, trace, delJob, pre, retPre, lastAcc, delLog>>

\* faulty variant: only the zone row is deleted
DeleteZoneRowOnly(z) ==
  /\ zones[z].exists
  /\ zones' = [zones EXCEPT ![z].exists = FALSE]
  /\ UNCHANGED <<cameras, now, maxAlerts, alerts, nextId, keyCtr, s3, zone_rules,
                 pc, lv, result, trace, delJob, pre, retPre, lastAcc, delLog, ruleRows, ruleJobs>>

\* DELETE /api/zones/:id: the rule goes, cameras and alerts of the zone get zone_id NULL, the
\* zone goes; its id is not handed out again (AUTOINCREMENT)
DeleteZone(z) ==
  /\ zones[z].exists
  /\ ruleRows' = {r \in ruleRows : r.zone_id # z}
  /\ zone_rules' = RuleView(ruleRows')
  /\ cameras' = [c \in CamIds |->
                   IF cameras[c].exists /\ cameras[c].zone_id = z
                     THEN [cameras[c] EXCEPT !.zone_id = NoZone] ELSE cameras[c]]
  /\ alerts' = {IF r.zone_id = z THEN [r EXCEPT !.zone_id = NoZone] ELSE r : r \in alerts}
  /\ zones' = [zones EXCEPT ![z].exists = FALSE]
  /\ UNCHANGED <<now, maxAlerts, nextId, keyCtr, s3,
                 pc, lv, result, trace, delJob, pre, retPre, lastAcc, delLog, ruleJobs>>

\* DELETE /api/locations/:id for the location of zone z: the zones of the location go, their
\* rules and the alerts stay as they are
DeleteLocation(z) ==
  /\ zones[z].exists
  /\ zones' = [zones EXCEPT ![z].exists = FALSE]
  /\ UNCHANGED <<cameras, now, maxAlerts, alerts, nextId, keyCtr, s3, zone_rules,
                 pc, lv, result, trace, delJob, pre, retPre, lastAcc, delLog, ruleRows, ruleJobs>>

\* POST /api/camera/register: a zone, when given, must be one of the caller's; the camera id
\* is not handed out again (AUTOINCREMENT)
RegisterCamera(c, u, z) ==
  /\ cameras[c] = NoCamRow
  /\ \A d \in CamIds : d < c => cameras[d] # NoCamRow
  /\ z # NoZone => zones[z].exists /\ u = ZoneOwner
  /\ cameras' = [cameras EXCEPT ![c] = [exists |-> TRUE, user_email |-> u, zone_id |-> z]]
  /\ UNCHANGED <<now, maxAlerts, alerts, nextId, keyCtr, s3, zones, zone_rules,
                 pc, lv, result, trace, delJob, pre, retPre, lastAcc, delLog, ruleRows, ruleJobs>>

\* DELETE /api/camera/:id by the camera's account
DeleteCamera(c) ==
  /\ cameras[c].exists
  /\ cameras' = [cameras EXCEPT ![c] = [exists |-> FALSE, user_email |-> @.user_email,
                                         zone_id |-> NoZone]]
  /\ UNCHANGED <<now, maxAlerts, alerts, nextId, keyCtr, s3, zones, zone_rules,
                 pc, lv, result, trace, delJob, pre, retPre, lastAcc, delLog, ruleRows, ruleJobs>>

\* POST /api/cctv/:id/snapshot with the camera's key: the pipeline runs under the camera's
\* account and with the camera's zone reference
SnapshotIngest(p, c, f, snap, lim) ==
  /\ cameras[c].exists
  /\ StartIngest(p, cameras[c].user_email, cameras[c].zone_id, f, snap, lim)

PinOp == \E u \in Users, id \in 1 .. MaxId, v \in {0, 1} : Pin(u, id, v)
DelOp == \E u \in Users, id \in 1 .. MaxId, ok \in BOOLEAN : DelStart(u, id, ok)
ZoneOp(cs) == \E z \in ZoneIds, c \in cs : CreateZone(z, c)
RuleOp(ivs) == \E z \in ZoneIds, rt \in RuleTypes, iv \in ivs : UpsertRule(z, rt, iv)

\* ------------------------------------------------------- specifications
\* requests of the sequential runs: account a with and without zone, account b with a camera
\* outside every zone, and a request without account
SeqInputs ==
  ({"a"} \X (ZoneIds \cup {NoZone}) \X Faces)
    \cup {<<"b", NoZone, "unknown">>, <<NoUser, NoZone, "unknown">>}

\* requests one after the other: no two operations overlap
NextSeq ==
  \/ Tick
  \/ \E p \in OneProc : AllIdle /\ IngestInputs(p, TRUE, SeqInputs, MaxId - 1)
  \/ \E p \in OneProc : PipelineStep(p)
  \/ \E p \in OneProc : Return(p, FALSE)
  \/ AllIdle /\ PinOp
  \/ AllIdle /\ DelOp
  \/ DelRow
  \/ AllIdle /\ ZoneOp({3})
  \/ AllIdle /\ RuleOp({-1, 1})

SpecSeq == Init /\ [][NextSeq]_vars

\* requests of the runs where pin and manual delete overlap a request
PinInputs == {<<"a", NoZone, "unknown">>, <<"b", NoZone, "unknown">>}

\* one request at a time, with pin and manual delete let in at every await of it
Next ==
  \/ Tick
  \/ \E p \in OneProc : IngestInputs(p, FALSE, PinInputs, MaxId - 1)
  \/ \E p \in OneProc : PipelineStep(p)
  \/ \E p \in OneProc : Return(p, FALSE)
  \/ PinOp
  \/ DelOp
  \/ DelRow

Spec == Init /\ [][Next]_vars

\* requests of the retention runs: unknown faces outside every zone, under two accounts
RetInputs == {<<"a", NoZone, "unknown">>, <<"b", NoZone, "unknown">>}

\* requests one after the other on a server whose cap changes from restart to restart
NextRet ==
  \/ Tick
  \/ \E m \in 1 .. MaxAlerts : Restart(m)
  \/ \E p \in OneProc : AllIdle /\ IngestInputs(p, TRUE, RetInputs, MaxId)
  \/ \E p \in OneProc : PipelineStep(p)
  \/ \E p \in OneProc : Return(p, FALSE)
  \/ AllIdle /\ PinOp

SpecRet == InitAnyCap /\ [][NextRet]_vars

\* requests of the ingest-only runs: account a, with and without zone
IngInputs == {"a"} \X (ZoneIds \cup {NoZone}) \X Faces

\* the zone is set up before the first alert; from then on nothing but ingests, one after the other
NextIngest ==
  \/ Tick
  \/ AllIdle /\ nextId = 1 /\ ZoneOp({3})
  \/ AllIdle /\ nextId = 1 /\ RuleOp({0, 1})
  \/ \E p \in OneProc : AllIdle /\ IngestInputs(p, TRUE, IngInputs, MaxId)
  \/ \E p \in OneProc : PipelineStep(p)
  \/ \E p \in OneProc : Return(p, TRUE)

SpecIngest == Init /\ [][NextIngest]_vars

\* requests of the runs with a failing ledger: account a outside every zone
FaultInputs == {"a"} \X {NoZone} \X Faces

\* requests one after the other, pins in between; the ledger may reject a call of retention
NextFault ==
  \/ Tick
  \/ \E p \in OneProc : AllIdle /\ IngestInputs(p, TRUE, FaultInputs, MaxId)
  \/ \E p \in OneProc : PipelineStep(p)
  \/ \E p \in OneProc : RetFail(p)
  \/ \E p \in OneProc : Return(p, FALSE)
  \/ AllIdle /\ PinOp

SpecFault == Init /\ [][NextFault]_vars

\* requests of the deletion runs: unknown faces outside every zone, under two accounts
DelInputs == {<<"a", NoZone, "unknown">>, <<"b", NoZone, "unknown">>}

\* one request at a time with manual delete let in at every await of it; the ledger may
\* reject a call of retention and the row delete of a manual delete
NextDel ==
  \/ \E p \in OneProc : IngestInputs(p, FALSE, DelInputs, MaxId - 1)
  \/ \E p \in OneProc : PipelineStep(p)
  \/ \E p \in OneProc : RetFail(p)
  \/ \E p \in OneProc : Return(p, FALSE)
  \/ DelOp
  \/ DelRow
  \/ DelFail

SpecDel == Init /\ [][NextDel]_vars

\* requests of the zone runs: account a, unknown faces, with and without zone
ZoneInputs == {"a"} \X (ZoneIds \cup {NoZone}) \X {"unknown"}

\* intervals asked for in the zone runs; 0 stands for a missing value
AskedIntervals == {-1, 0, 1441}

\* zones, rules, locations and cameras are managed between requests; rule upserts overlap each
\* other, and a zone may be deleted while the last request has yet to answer.
\* The clock stands still: no step of these runs but the cooldown reads it.
NextZone ==
  \/ \E p \in OneProc : AllIdle /\ ruleJobs = {} /\ IngestInputs(p, FALSE, ZoneInputs, MaxId - 1)
  \/ \E p \in OneProc : PipelineStep(p)
  \/ \E p \in OneProc : Return(p, FALSE)
  \/ AllIdle /\ ZoneOp({0})
  \/ AllIdle /\ \E z \in ZoneIds, rt \in RuleTypes, iv \in AskedIntervals : RuleCheck(z, rt, iv)
  \/ AllIdle /\ \E job \in ruleJobs : RuleWrite(job)
  \/ Settled /\ \E z \in ZoneIds : DeleteZone(z)
  \/ AllIdle /\ \E z \in ZoneIds : DeleteLocation(z)
  \/ AllIdle /\ \E c \in CamIds, z \in ZoneIds \cup {NoZone} : RegisterCamera(c, ZoneOwner, z)
  \/ AllIdle /\ \E c \in CamIds : DeleteCamera(c)
  \/ \E p \in OneProc, c \in CamIds :
       AllIdle /\ ruleJobs = {} /\ SnapshotIngest(p, c, "unknown", FALSE, MaxId - 1)

SpecZone == Init /\ [][NextZone]_vars

\* requests of the cost runs: account a, with and without zone
CostInputs == {"a"} \X (ZoneIds \cup {NoZone}) \X Faces

\* costs asked for when a zone is created; 0 stands for a missing value
AskedCosts == {0, 3}

\* zones come and go between requests, the rule of a zone is set to any type without
\* cooldown, requests run one after the other; the ledger may reject the cost lookup
NextCost ==
  \/ AllIdle /\ ZoneOp(AskedCosts)
  \/ AllIdle /\ RuleOp({-1})
  \/ AllIdle /\ \E z \in ZoneIds : DeleteZone(z)
  \/ \E p \in OneProc : AllIdle /\ IngestInputs(p, TRUE, CostInputs, MaxId)
  \/ \E p \in OneProc : PipelineStep(p)
  \/ \E p \in OneProc : CostFail(p)
  \/ \E p \in OneProc : Return(p, FALSE)

SpecCost == Init /\ [][NextCost]_vars

\* requests of the racing runs: unknown faces in zone 1 under account a
RaceInputs == {<<"a", 1, "unknown">>}

\* two requests in flight at a time, every await of one open to the steps of the other; the
\* zone is set up before the first request and the clock stands still
NextRace ==
  \/ AllIdle /\ nextId = 1 /\ ZoneOp({0})
  \/ \E p \in Procs : IngestInputs(p, TRUE, RaceInputs, MaxId - 1)
  \/ \E p \in Procs : PipelineStep(p)
  \/ \E p \in Procs : Return(p, FALSE)

SpecRace == InitAnyCap /\ [][NextRace]_vars

\* requests of the runs with hanging calls: account a outside every zone
HangInputs == {"a"} \X {NoZone} \X Faces

\* requests one after the other; an external call answers, fails or never settles
NextHang ==
  \/ \E p \in OneProc : AllIdle /\ IngestInputs(p, FALSE, HangInputs, MaxId)
  \/ \E p \in OneProc : PipelineStep(p)
  \/ \E p \in OneProc : Hang(p)
  \/ \E p \in OneProc : Return(p, FALSE)

\* the event loop runs every continuation that is ready: a step of a request that can be
\* taken is taken, and so is the response
SpecHang ==
  /\ InitAnyCap /\ [][NextHang]_vars
  /\ \A p \in OneProc : WF_vars(PipelineStep(p)) /\ WF_vars(Return(p, FALSE))

\* requests of the two-account runs: the owner of zone 1 and another account both name zone 1;
\* POST /api/trigger-alert takes email and zone_id from the body and checks neither
TenantInputs == {<<ZoneOwner, 1, "unknown">>, <<"b", 1, "unknown">>}

\* the zone is set up before the first request; requests of the two accounts one after the other
NextTenant ==
  \/ Tick
  \/ AllIdle /\ nextId = 1 /\ ZoneOp({0})
  \/ \E p \in OneProc : AllIdle /\ IngestInputs(p, TRUE, TenantInputs, MaxId)
  \/ \E p \in OneProc : PipelineStep(p)
  \/ \E p \in OneProc : Return(p, FALSE)

SpecTenant == Init /\ [][NextTenant]_vars

\* ----------------------------------------------------------------- claims
Ids(tbl) == {r.id : r \in tbl}
InTrace(p, what) == \E i \in 1 .. Len(trace[p]) : trace[p][i] = what

\* C1: no row that retention enforcement deletes has pinned = 1 at the moment its DELETE
\* executes, also when the row was pinned after the victim list was selected.
C1_RetentionSparesPinned ==
  [][\A p \in Procs :
       pc[p] = "ret_row" /\ pc'[p] # "ret_row"
         => \A r \in alerts : r.id \notin Ids(alerts') => r.pinned = 0]_vars

\* C2: one uninterrupted enforcement on an account with n rows, u of them unpinned, deletes
\* exactly max(0, min(n - max, u)) rows, every one of them unpinned and none newer than an
\* unpinned row it keeps; with n <= max nothing changes and with all rows unpinned and
\* n > max exactly max rows remain.
GoneBy(p) == retPre[p] \ alerts
C2_RetentionExact ==
  \A p \in Procs :
    pc[p] = "email" /\ lv[p].snap =>
      LET u == lv[p].user
          n == Cardinality(RowsOf(retPre[p], u))
          un == Unpinned(retPre[p], u)
      IN /\ alerts \subseteq retPre[p]
         /\ Cardinality(GoneBy(p)) = Max(0, Min(n - maxAlerts, Cardinality(un)))
         /\ GoneBy(p) \subseteq un
         /\ \A d \in GoneBy(p) : \A k \in un \ GoneBy(p) : d.timestamp <= k.timestamp
         /\ (n <= maxAlerts => alerts = retPre[p])
         /\ (n > maxAlerts /\ Cardinality(un) = n => Cardinality(RowsOf(alerts, u)) = maxAlerts)

\* C2 witness: an enforcement has deleted two rows and kept a pinned one of the same account
C2_Witness ==
  \E p \in Procs :
    /\ pc[p] = "email" /\ lv[p].snap
    /\ Cardinality(GoneBy(p)) = 2
    /\ \E r \in alerts : r.user_email = lv[p].user /\ r.pinned = 1

\* C3: an ingest whose object-store write fails returns failed and inserts no row, and every
\* ledger row carries a key that was stored before the row was inserted.
StoredKeys == 1 .. (keyCtr - 1)
C3_NoRowWithoutBlob ==
  /\ \A p \in Procs :
       InTrace(p, "put") /\ ~lv[p].stored =>
         /\ pc[p] = "done" /\ result[p] = "failed"
         /\ ~InTrace(p, "insert")
         /\ alerts = pre[p].alerts
  /\ \A r \in alerts : r.image_key \in StoredKeys

\* C3 witness: a write has failed on an account that already has alerts
C3_Witness ==
  \E p \in Procs :
    /\ pc[p] = "done" /\ result[p] = "failed" /\ InTrace(p, "put")
    /\ RowsOf(alerts, lv[p].user) # {}

\* what the request reports as classification
Classification(p) == IF lv[p].isKnown THEN "known" ELSE "unknown"

\* the unknown alerts of zone z in ledger tbl that are no older than c minutes at time t
RecentUnknown(tbl, z, t, c) ==
  {r \in tbl : r.zone_id = z /\ r.type = "unknown" /\ r.timestamp >= t - c}

\* C4: when the cooldown check reports the zone suppressed the ingest returns skipped/cooldown
\* and, for that event, the matcher is not called, nothing is stored, the ledger is unchanged,
\* retention is not run and nothing is sent.
C4_CooldownSkipsEverything ==
  \A p \in Procs :
    /\ result[p] = "cooldown" =>
         pc[p] = "done" /\ trace[p] = <<>> /\ alerts = pre[p].alerts /\ s3 = pre[p].s3
    /\ (pc[p] \notin {"idle", "cooldown"} /\ lv[p].user # NoUser
          /\ shouldCooldownUnknown(pre[p].alerts, zone_rules, lv[p].chkAt, lv[p].zone))
         => result[p] = "cooldown"

\* C4 witness: an ingest has been skipped for cooldown
C4_Witness ==
  \E p \in Procs : pc[p] = "done" /\ result[p] = "cooldown" /\ alerts # {} /\ s3 # {}

C6_PolicySkipsEverything ==
  \A p \in Procs :
    /\ result[p] = "policy" =>
         /\ pc[p] = "done" /\ trace[p] = <<"match">>
         /\ alerts = pre[p].alerts /\ s3 = pre[p].s3
    /\ (InTrace(p, "match") /\ pc[p] # "rule"
          /\ ~ruleAllowsAlert(zone_rules, lv[p].zone, lv[p].isKnown))
         => result[p] = "policy"

\* C6 witness: an unknown face has been skipped by a known_only rule, with alerts on record
C6_Witness ==
  \E p \in Procs :
    /\ pc[p] = "done" /\ result[p] = "policy" /\ ~lv[p].isKnown
    /\ alerts # {} /\ s3 # {}

C8_NoRuleNeverSkipped ==
  \A p \in Procs :
    pc[p] = "done" /\ lv[p].zone # NoZone /\ zone_rules[lv[p].zone] = NoRule
      => result[p] \notin {"cooldown", "policy"}

\* C8 as amended: for a zone without rule every classification is allowed, and the default
\* cooldown applies: the ingest is skipped for cooldown exactly when the zone has an unknown
\* alert of the last DefaultCooldown minutes, and otherwise is accepted when storage succeeds.
C8_NoRuleDefaultCooldown ==
  \A p \in Procs :
    pc[p] = "done" /\ lv[p].zone # NoZone /\ zone_rules[lv[p].zone] = NoRule =>
      /\ result[p] # "policy"
      /\ result[p] = "cooldown"
           <=> RecentUnknown(pre[p].alerts, lv[p].zone, lv[p].chkAt, DefaultCooldown) # {}
      /\ result[p] # "cooldown" /\ lv[p].stored => result[p] = "accepted"

\* C8 witness: the second of two unknown events for a zone without rule has been skipped
C8_Witness ==
  \E p \in Procs :
    /\ pc[p] = "done" /\ lv[p].zone # NoZone /\ zone_rules[lv[p].zone] = NoRule
    /\ lv[p].face = "unknown" /\ result[p] = "cooldown"

\* the request is for a zone with a rule, and a returned request for that zone was accepted
\* as unknown at a time T with T <= check time < T + the rule's interval
InsideWindow(p) ==
  /\ pc[p] = "done" /\ lv[p].zone # NoZone
  /\ zone_rules[lv[p].zone] # NoRule
  /\ lastAcc[lv[p].zone] >= 0
  /\ lastAcc[lv[p].zone] <= lv[p].chkAt
  /\ lv[p].chkAt < lastAcc[lv[p].zone] + zone_rules[lv[p].zone].alert_interval

\* C9 as claimed: with nothing but sequential ingests, once an ingest for a zone with cooldown c
\* is accepted as unknown at T, every later ingest for the zone at t, T <= t < T + c, is
\* skipped for cooldown.
C9_CooldownAfterAccept ==
  \A p \in Procs : InsideWindow(p) => result[p] = "cooldown"

\* C9 as amended: ... is skipped for cooldown as long as retention has not deleted that alert.
C9_CooldownWhileRowKept ==
  \A p \in Procs :
    (InsideWindow(p)
       /\ \E r \in pre[p].alerts : /\ r.zone_id = lv[p].zone /\ r.type = "unknown"
                                   /\ r.timestamp = lastAcc[lv[p].zone])
      => result[p] = "cooldown"

\* C9 witness: an ingest has been skipped some minutes after the accepted one
C9_Witness ==
  \E p \in Procs :
    InsideWindow(p) /\ result[p] = "cooldown" /\ lv[p].chkAt > lastAcc[lv[p].zone]

\* C10: an ingest that returns accepted with alert id X leaves a row X of the account that the
\* listing returns with the classification and the cost of the result.
C10_AcceptedIsListed ==
  \A p \in Procs :
    pc[p] = "done" /\ result[p] = "accepted" =>
      \A type \in {"all", Classification(p)} :
        \E r \in ListAlerts(alerts, lv[p].user, type) :
          r.id = lv[p].alertId /\ r.type = Classification(p) /\ r.cost = lv[p].cost

\* C11: when retention enforcement fails after the ledger row has been inserted, the ingest
\* still returns accepted for the event and the inserted row stays in the ledger.
C11_RetentionFailureAbsorbed ==
  \A p \in Procs :
    InTrace(p, "retention_failed") =>
      /\ result[p] = "accepted"
      /\ \E r \in alerts : r.id = lv[p].alertId

\* C12: a failed send changes nothing of the outcome: the request ends accepted with the
\* alert id, classification and cost it had before the send, and ledger and object store
\* are what they were before the send.
C12_NotifierFailureAbsorbed ==
  [][\A p \in Procs :
       (pc[p] = "email" /\ pc'[p] # "email" /\ ~lv[p].isKnown /\ ~lv'[p].mailed) =>
         /\ result'[p] = "accepted"
         /\ lv'[p].alertId = lv[p].alertId
         /\ lv'[p].isKnown = lv[p].isKnown
         /\ lv'[p].cost = lv[p].cost
         /\ alerts' = alerts /\ s3' = s3]_vars

\* C12 witness: a request whose send failed has ended accepted and its row is in the ledger
C12_Witness ==
  \E p \in Procs :
    /\ pc[p] = "done" /\ InTrace(p, "notify") /\ ~lv[p].mailed
    /\ result[p] = "accepted"
    /\ \E r \in alerts : r.id = lv[p].alertId /\ r.type = "unknown" /\ r.cost = lv[p].cost

\* how often the request has called the notifier
Notified(p) == Cardinality({i \in 1 .. Len(trace[p]) : trace[p][i] = "notify"})

\* C13: the notifier is called exactly once for an ingest accepted as unknown, also when
\* the send fails, and never for an ingest accepted as known, skipped or failed.
C13_NotifyOnceForUnknown ==
  \A p \in Procs :
    /\ pc[p] = "done" =>
         Notified(p) = IF result[p] = "accepted" /\ ~lv[p].isKnown THEN 1 ELSE 0
    /\ pc[p] # "done" => Notified(p) = 0

\* C13 witness: a request whose one send failed has ended accepted, after requests that
\* left alerts on record
C13_Witness ==
  \E p \in Procs :
    /\ pc[p] = "done" /\ result[p] = "accepted" /\ ~lv[p].isKnown
    /\ ~lv[p].mailed /\ Notified(p) = 1
    /\ Cardinality(alerts) > 1

\* the deletions in flight that are between the blob delete and the row delete of row id
PastBlobDelete(id) ==
  \/ delJob # NoJob /\ delJob.id = id
  \/ \E p \in Procs : pc[p] = "ret_row" /\ Head(lv[p].victims).id = id

\* keys of blobs that are stored and have no ledger row, requests about to insert aside
BlobsWithoutRow ==
  {k \in s3 : /\ \A r \in alerts : r.image_key # k
              /\ \A p \in Procs : ~(pc[p] = "insert" /\ lv[p].key = k)}

\* rows whose blob is no longer stored
RowsWithoutBlob == {r \in alerts : r.image_key \notin s3}

\* C14 as claimed: a row is removed only after its blob delete was attempted, and a deletion
\* that has stopped partway leaves a blob without row, never a row whose blob is gone.
C14_StoppedLeavesBlobOnly ==
  /\ [][\A r \in alerts : r.id \notin Ids(alerts') => r.image_key \in delLog.tried]_vars
  /\ [](\A r \in RowsWithoutBlob : r.id \notin delLog.stopped)

\* C14 as amended: a row is removed only after its blob delete was attempted; a blob is left
\* without row only when its delete was attempted and failed; a deletion that stops between
\* the two steps leaves a row whose blob is gone, and every such row comes from a deletion
\* that stopped there or is there now.
C14_BlobFirstThenRow ==
  /\ [][\A r \in alerts : r.id \notin Ids(alerts') => r.image_key \in delLog.tried]_vars
  /\ [](\A k \in BlobsWithoutRow : k \in delLog.tried)
  /\ [](\A r \in RowsWithoutBlob : r.id \in delLog.stopped \/ PastBlobDelete(r.id))

\* C14 witness: a deletion has stopped after its blob delete, row kept and blob gone, and
\* another deletion has left a blob without row
C14_Witness ==
  /\ \A p \in Procs : pc[p] = "idle"
  /\ delJob = NoJob
  /\ \E r \in RowsWithoutBlob : r.id \in delLog.stopped
  /\ BlobsWithoutRow # {}

\* C15 as claimed: after an enforcement the blob of every row it deleted is no longer in the
\* object store, also when an object-store delete failed during the enforcement.
C15_DeletedBlobsGone ==
  \A p \in Procs :
    pc[p] = "email" /\ lv[p].snap => \A r \in GoneBy(p) : r.image_key \notin s3

\* C15 as amended: after an enforcement the blob of a row it deleted is no longer in the
\* object store exactly when the delete of that blob succeeded; a victim whose blob delete
\* failed is deleted from the ledger all the same and its blob stays in the object store.
C15_DeletedBlobsGoneUnlessFailed ==
  \A p \in Procs :
    pc[p] = "email" /\ lv[p].snap =>
      /\ \A r \in GoneBy(p) :
           /\ r.image_key \in delLog.tried
           /\ r.image_key \in s3 <=> r.image_key \in delLog.failed
      /\ \A r \in retPre[p] : r.image_key \in delLog.failed => r \notin alerts

\* C15 witness: an enforcement has deleted two rows, the blob of one is gone and the blob of
\* the other, whose delete failed, is still stored
C15_Witness ==
  \E p \in Procs :
    /\ pc[p] = "email" /\ lv[p].snap
    /\ \E r, q \in GoneBy(p) : r.image_key \in s3 /\ q.image_key \notin s3

\* the cooldown the claim speaks of: the interval of the zone's rule, or the default
ClaimedCooldown(z) ==
  IF zone_rules[z] = NoRule THEN DefaultCooldown ELSE zone_rules[z].alert_interval

C17_RuleFilterTable ==
  /\ \A k \in BOOLEAN : ruleAllowsAlert(zone_rules, NoZone, k)
  /\ \A z \in ZoneIds : \A k \in BOOLEAN :
       LET rt == zone_rules[z].rule_type IN
         /\ (zone_rules[z] = NoRule \/ rt = "mixed") => ruleAllowsAlert(zone_rules, z, k)
         /\ rt = "known_only" => (ruleAllowsAlert(zone_rules, z, k) <=> k)
         /\ rt = "unknown_only" => (ruleAllowsAlert(zone_rules, z, k) <=> ~k)

\* C17 witness: under a known_only rule a request with an unknown face has been skipped
C17_Witness ==
  \E p \in Procs :
    /\ pc[p] = "done" /\ result[p] = "policy" /\ lv[p].zone # NoZone
    /\ zone_rules[lv[p].zone].rule_type = "known_only"
    /\ lv[p].face = "unknown" /\ InTrace(p, "match")

\* C18: after any sequence of zone creations and rule upserts, two upserts for one zone in
\* flight at a time included, every zone has at most one rule, and right after an upsert
\* has written, the zone's rule is what that upsert wrote.
C18_OneRulePerZone ==
  /\ [](\A z \in ZoneIds : Cardinality(RulesOfZone(ruleRows, z)) <= 1)
  /\ [][\A job \in ruleJobs :
          job \notin ruleJobs' =>
            /\ RulesOfZone(ruleRows', job.zone_id) = {job}
            /\ zone_rules'[job.zone_id] =
                 [rule_type |-> job.rule_type, alert_interval |-> job.alert_interval]]_vars

\* C18 witness: of two upserts for one zone with different values one has written its rule
\* and the other is still to write
C18_Witness ==
  \E job \in ruleJobs : \E r \in ruleRows :
    /\ r.zone_id = job.zone_id /\ r # job
    /\ r.alert_interval # DefaultCooldown

\* C19: every cooldown interval in the zone rule store lies in [1, 1440] minutes: an upsert
\* that asks for less than 1 stores 1 and one that asks for more than 1440 stores 1440.
C19_IntervalClamped ==
  \A r \in ruleRows : 1 <= r.alert_interval /\ r.alert_interval <= 1440

\* C20: as long as a ledger row exists none of its fields but pinned changes.
C20_RowsImmutable ==
  [][\A r \in alerts : \A q \in alerts' :
       q.id = r.id => [q EXCEPT !.pinned = r.pinned] = r]_vars

C22_CostResolved ==
  /\ [](\A p \in Procs :
          pc[p] = "done" /\ result[p] = "accepted" =>
            LET z == lv[p].zone
                expected == IF z = NoZone \/ ~zones[z].exists THEN DefaultCost
                            ELSE zones[z].cost_per_scan
            IN /\ lv[p].cost = expected
               /\ \A r \in alerts : r.id = lv[p].alertId => r.cost = expected)
  /\ [][\A p \in Procs :
          pc[p] = "cost" /\ pc'[p] # "cost" =>
            /\ pc'[p] = "put" /\ result'[p] = "none"
            /\ UNCHANGED <<alerts, s3, zones, ruleRows, zone_rules, cameras, nextId, keyCtr>>]_vars

\* the request's own row, while the ledger holds it
OwnRow(p) == {r \in alerts : r.id = lv[p].alertId}

\* C23: no lock ties the cooldown check to the insert. A request that has passed the check is
\* not skipped for cooldown later and its insert adds its row whatever the zone has received
\* since, so two requests for one zone that both pass the check before either inserts are both
\* recorded as unknown inside one cooldown window.
C23_CheckAndInsertUnlocked ==
  /\ [](\A p \in Procs : result[p] = "cooldown" => trace[p] = <<>>)
  /\ [][\A p \in Procs :
          pc[p] = "insert" /\ pc'[p] # "insert" =>
            /\ result'[p] = "none"
            /\ alerts' = alerts \cup {NewRow(p)}
            /\ NewRow(p) \notin alerts]_vars

\* C23 witness: the ledger holds the rows of two requests for one zone, both unknown, both
\* written in the zone's cooldown window, and neither row was there when the other began
C23_Witness ==
  \E p, q \in Procs :
    /\ p # q /\ lv[p].zone = lv[q].zone /\ lv[p].zone # NoZone
    /\ CooldownMinutes(zone_rules, lv[p].zone) > 0
    /\ \E r \in OwnRow(p), t \in OwnRow(q) :
         /\ r.type = "unknown" /\ t.type = "unknown"
         /\ r.zone_id = t.zone_id
         /\ r.timestamp - t.timestamp < CooldownMinutes(zone_rules, lv[p].zone)
         /\ t.timestamp - r.timestamp < CooldownMinutes(zone_rules, lv[p].zone)
         /\ r \notin pre[q].alerts /\ t \notin pre[p].alerts

\* C24: concurrent retention enforcements for one account act like some serial order of them:
\* together they delete no more rows than needed, so an account whose rows are all unpinned
\* and which holds at least maxCount rows is never brought below maxCount rows.
C24_RetentionSerializable ==
  [][\A u \in Users :
       (/\ Unpinned(alerts, u) = RowsOf(alerts, u)
        /\ Cardinality(RowsOf(alerts, u)) >= maxAlerts)
         => Cardinality(RowsOf(alerts', u)) >= maxAlerts]_vars

\* the place of a step in the order cooldown check, matcher call, rule filter, cost
\* resolution, object-store write, ledger insert, retention, notifier
StepRank(s) ==
  CASE s = "cooldown" -> 1
    [] s = "match" -> 2
    [] s = "rule" -> 3
    [] s = "cost" -> 4
    [] s = "put" -> 5
    [] s = "insert" -> 6
    [] s \in {"ret_count", "ret_select", "ret_blob", "ret_row"} -> 7
    [] s = "email" -> 8
    [] OTHER -> 0

\* position i of the request's trace comes before a position with label what
Before(p, i, what) == \E j \in (i + 1) .. Len(trace[p]) : trace[p][j] = what

\* C25: within one ingest the steps happen in the order cooldown check, matcher call, rule
\* filter, cost resolution, object-store write, ledger insert, retention, notifier: the insert
\* never precedes a successful object-store write, and retention and the notifier never run
\* before the insert.
C25_StepOrder ==
  /\ [][\A p \in Procs :
          pc'[p] # pc[p] =>
            \/ pc[p] = "idle" /\ pc'[p] \in {"cooldown", "done"}
            \/ pc[p] = "done" /\ pc'[p] = "idle"
            \/ pc[p] # "idle" /\ pc'[p] = "done"
            \/ StepRank(pc'[p]) = StepRank(pc[p]) + 1
            \/ StepRank(pc'[p]) = 7 /\ StepRank(pc[p]) = 7]_vars
  /\ [](\A p \in Procs :
          \A i \in 1 .. Len(trace[p]) :
            /\ trace[p][i] = "insert" =>
                 /\ lv[p].stored /\ lv[p].key \in StoredKeys
                 /\ \E j \in 1 .. (i - 1) : trace[p][j] = "put"
                 /\ ~Before(p, i, "put") /\ ~Before(p, i, "match")
            /\ trace[p][i] \in {"retention", "notify"} =>
                 /\ \E j \in 1 .. (i - 1) : trace[p][j] = "insert"
                 /\ ~Before(p, i, "insert")
            /\ trace[p][i] = "notify" => ~Before(p, i, "retention"))

\* C25 witness: an accepted request has gone through every step, retention with a deletion
C25_Witness ==
  \E p \in Procs :
    /\ pc[p] = "done" /\ result[p] = "accepted"
    /\ trace[p] = <<"match", "put", "insert", "retention", "notify">>
    /\ lv[p].zone # NoZone
    /\ OwnRow(p) # {} /\ Cardinality(alerts) < lv[p].alertId

\* C26: every ingest eventually reaches a terminal result (accepted, skipped or failed), also
\* when a call to the matcher, the object store or the notifier never returns.
C26_IngestTerminates ==
  \A p \in Procs : (pc[p] # "idle") ~> (pc[p] = "done" /\ result[p] # "none")

\* the account is within its cap or has nothing left that retention may delete
WithinCap(u) == Cardinality(RowsOf(alerts, u)) <= maxAlerts \/ Unpinned(alerts, u) = {}

HeldFor(tbl, store, u) ==
  [rows |-> RowsOf(tbl, u), blobs |-> {r.image_key : r \in RowsOf(tbl, u)} \cap store]

\* C28: retention enforcement for one account deletes no row and no blob of another account,
\* so an ingest under one account leaves the rows, pinned flags and blobs of every other
\* account unchanged.
C28_IngestFrame ==
  /\ [][\A p \in Procs : \A u \in Users :
          pc[p] # "idle" /\ pc'[p] # pc[p] /\ u # lv[p].user =>
            HeldFor(alerts', s3', u) = HeldFor(alerts, s3, u)]_vars
  /\ [](\A p \in Procs : \A u \in Users :
          pc[p] = "done" /\ lv[p].snap /\ u # lv[p].user =>
            HeldFor(alerts, s3, u) = HeldFor(pre[p].alerts, pre[p].s3, u))

\* C28 witness: an ingest under one account has had retention delete a row while another
\* account holds an older row with its blob, pinned or not
C28_Witness ==
  \E p \in Procs : \E u \in Users :
    /\ pc[p] = "done" /\ result[p] = "accepted" /\ lv[p].snap /\ u # lv[p].user
    /\ GoneBy(p) # {}
    /\ \E r \in RowsOf(alerts, u) :
         /\ r.image_key \in s3
         /\ \A d \in GoneBy(p) : Older(r, d)

\* C29: the result of an ingest under the account that owns the zone does not depend on
\* ingests submitted under another account: when the owner's ingest is skipped for cooldown,
\* a recent unknown alert of the owner's own account in that zone is the cause.
C29_CooldownWithinAccount ==
  \A p \in Procs :
    pc[p] = "done" /\ result[p] = "cooldown" /\ lv[p].user = ZoneOwner =>
      \E r \in RowsOf(pre[p].alerts, lv[p].user) :
        r \in RecentUnknown(pre[p].alerts, lv[p].zone, lv[p].chkAt,
                            CooldownMinutes(zone_rules, lv[p].zone))

\* C30: after any sequence of location, zone, rule and camera create and delete operations,
\* every zone rule and every camera zone reference names a zone that still exists, so no
\* ingest applies the cooldown or the rule type of a deleted zone.
C30_NoDanglingZoneReference ==
  /\ \A r \in ruleRows : zones[r.zone_id].exists
  /\ \A c \in CamIds :
       cameras[c].exists /\ cameras[c].zone_id # NoZone => zones[cameras[c].zone_id].exists
  /\ \A p \in Procs :
       (/\ result[p] \in {"cooldown", "policy"}
        /\ lv[p].zone # NoZone
        /\ \E c \in CamIds : cameras[c].exists /\ cameras[c].zone_id = lv[p].zone)
         => zones[lv[p].zone].exists

====
